---- MODULE Spec2Model ----
(***************************************************************************)
(* Model of the Bunq dashboard gateway (api_proxy_secure.py and            *)
(* api_proxy.py): the sliding-window RateLimiter, the Basic-Auth guard,    *)
(* the decorator chain in front of the route handlers, and the bootstrap   *)
(* of the persisted Bunq session context.                                  *)
(*                                                                         *)
(* Specifications:                                                         *)
(*   Spec         one RateLimiter, is_allowed called sequentially          *)
(*   SpecThreads  is_allowed run by several request threads, interleaved   *)
(*   SpecGateway  requests through the route decorators of both gateways   *)
(*   SpecBoot     successive process starts running init_bunq              *)
(***************************************************************************)
EXTENDS Integers, Sequences, FiniteSets, TLC

\* ------------------------------------------------------------------ bounds
\* RateLimiter(max_requests, window_seconds): the constructor's parameters,
\* scaled down from the module's instance (30 requests / 60 seconds).
MaxRequests == 2
WindowSeconds == 2
\* The clock runs over 0..MaxTime; at most MaxCalls is_allowed calls are logged.
MaxTime == 4
MaxCalls == 5
\* At most MaxThreadCalls is_allowed calls are started by the request threads.
MaxThreadCalls == 3
\* The clock of the gateway specification runs over 0..MaxGatewayTime; the
\* upstream lists at most MaxAccounts accounts.
MaxGatewayTime == 2
MaxAccounts == 2
\* At most MaxStarts process starts are followed.
MaxStarts == 3
\* An account holds at most MaxPayments payments, created at 0..MaxFetchTime
\* (in days); the fetch runs at day MaxFetchTime.
MaxPayments == 2
MaxFetchTime == 2
\* The demo generators are run for days in {0, 1} and 29..MaxDemoDays.
MaxDemoDays == 31
\* Statistics are taken over at most MaxTransactions transactions with whole
\* amounts in -MaxAmount..MaxAmount.
MaxTransactions == 3
MaxAmount == 2
\* Credentials are strings of at most MaxKeyLen characters; the vault answers
\* with at most MaxItems items.
MaxKeyLen == 11
MaxItems == 2

Clients == {"1.2.3.4", "5.6.7.8"}
\* The addresses requests to the gateway come from.
GatewayClients == {"1.2.3.4"}
Threads == {"t1", "t2"}
Times == 0..MaxTime

VARIABLES
    requests,   \* RateLimiter.requests: client_id -> list of request times
    now,        \* the value time.time() returns
    calls,      \* history: the is_allowed calls made, in order, with their results
    pc,         \* per request thread: its position inside is_allowed
    tclient,    \* per request thread: the client_id argument
    tnow,       \* per request thread: the local `now`
    tkept,      \* per request thread: the list the comprehension built
    gateway,    \* which file the process runs: "secure" or "permissive"
    expected_password,  \* os.getenv('BASIC_AUTH_PASSWORD', '')
    API_KEY,    \* the credential resolved at startup ("" when absent)
    bunq_ready, \* BunqContext holds a loaded api context (init_bunq returned True)
    resp,       \* history: the last request served and the response to it
    config_file,  \* os.path.exists(CONFIG_FILE): the persisted session context
    boots,      \* history: the process starts so far, what init_bunq did in each
    call_args,    \* the arguments and environment of one function call
    call_result   \* what that call returned, raised and logged

limiterVars == <<requests, now, calls>>
threadVars == <<pc, tclient, tnow, tkept>>
gatewayVars == <<gateway, expected_password, API_KEY, bunq_ready, resp>>
functionVars == <<call_args, call_result>>
bootVars == <<config_file, boots>>

\* ------------------------------------------------------- RateLimiter (pure)

\* The comprehension's condition `req_time > window_start`.
InWindow_Inclusive(req_time, window_start) == req_time >= window_start

InWindow(req_time, window_start) == req_time > window_start

\* now - self.window_seconds
WindowStart(t) == t - WindowSeconds

\* [req_time for req_time in self.requests[client_id] if req_time > window_start]
CleanOld(list, t) == SelectSeq(list, LAMBDA req_time : InWindow(req_time, WindowStart(t)))

\* len(self.requests[client_id]) >= self.max_requests
OverLimit_OffByOne(n) == n > MaxRequests

OverLimit(n) == n >= MaxRequests

\* is_allowed appending the timestamp of a denied request as well.
IsAllowed_RecordsDenied(list, t) ==
    LET cleaned == CleanOld(list, t)
    IN  IF OverLimit(Len(cleaned))
        THEN [ok |-> FALSE, list |-> Append(cleaned, t)]
        ELSE [ok |-> TRUE, list |-> Append(cleaned, t)]

\* The whole of is_allowed on one client's list at time t: the result and the
\* list stored back.
IsAllowed(list, t) ==
    LET cleaned == CleanOld(list, t)
    IN  IF OverLimit(Len(cleaned))
        THEN [ok |-> FALSE, list |-> cleaned]
        ELSE [ok |-> TRUE, list |-> Append(cleaned, t)]

\* -------------------------------------------------- Spec: sequential limiter

ThreadsIdle ==
    /\ pc = [t \in Threads |-> "idle"]
    /\ tclient = [t \in Threads |-> "1.2.3.4"]
    /\ tnow = [t \in Threads |-> 0]
    /\ tkept = [t \in Threads |-> <<>>]

\* RateLimiter.__init__: requests = defaultdict(list)
LimiterInit ==
    /\ requests = [c \in Clients |-> <<>>]
    /\ now = 0
    /\ calls = <<>>

\* request.authorization is None.
NoAuth == [present |-> FALSE, username |-> "", password |-> ""]

\* No request served yet.
NoResponse ==
    [endpoint |-> "none", client |-> "none", auth |-> NoAuth, status |-> 0,
     challenge |-> FALSE, auth_passed |-> FALSE, limiter_called |-> FALSE,
     limiter_allowed |-> FALSE, handler_ran |-> FALSE, upstream |-> <<>>,
     success |-> FALSE, source |-> "none", synthetic |-> FALSE,
     failed |-> FALSE, attempts |-> <<>>, listed |-> 0, data |-> <<>>,
     api_status |-> "none"]

\* The limiter alone: no gateway process is modelled.
GatewayOff ==
    /\ gateway = "secure"
    /\ expected_password = ""
    /\ API_KEY = ""
    /\ bunq_ready = FALSE
    /\ resp = NoResponse

\* No function call is followed.
NoCall ==
    /\ call_args = <<>>
    /\ call_result = <<>>

\* No process has started yet and no session context is persisted.
NoBoots ==
    /\ config_file = FALSE
    /\ boots = <<>>

Init ==
    /\ LimiterInit
    /\ ThreadsIdle
    /\ GatewayOff
    /\ NoBoots
    /\ NoCall

\* The clock advances (time.time() is read at non-decreasing values).
Tick ==
    /\ now < MaxTime
    /\ now' = now + 1
    /\ UNCHANGED <<requests, calls, threadVars, gatewayVars, bootVars, functionVars>>

\* One call rate_limiter.is_allowed(client_id), run to completion.
IsAllowedCall(client_id) ==
    /\ Len(calls) < MaxCalls
    /\ LET r == IsAllowed(requests[client_id], now)
       IN  /\ requests' = [requests EXCEPT ![client_id] = r.list]
           /\ calls' = Append(calls, [client |-> client_id, time |-> now, ok |-> r.ok])
    /\ UNCHANGED <<now, threadVars, gatewayVars, bootVars, functionVars>>

Next ==
    \/ Tick
    \/ \E c \in Clients : IsAllowedCall(c)

vars == <<requests, now, calls, pc, tclient, tnow, tkept,
          gateway, expected_password, API_KEY, bunq_ready, resp,
          config_file, boots, call_args, call_result>>

Spec == Init /\ [][Next]_vars

\* ------------------------------------- SpecThreads: is_allowed interleaved
\* Flask's app.run serves each request on its own thread and is_allowed takes
\* no lock, so the statements of two calls interleave.  Each action is one
\* statement (or one half of the clean-up assignment) of is_allowed.

Active == {t \in Threads : pc[t] # "idle"}

\* now = time.time(); window_start = now - self.window_seconds
T_Enter(t, client_id) ==
    /\ pc[t] = "idle"
    /\ Len(calls) + Cardinality(Active) < MaxThreadCalls
    /\ pc' = [pc EXCEPT ![t] = "clean"]
    /\ tclient' = [tclient EXCEPT ![t] = client_id]
    /\ tnow' = [tnow EXCEPT ![t] = now]
    /\ UNCHANGED <<requests, now, calls, tkept, gatewayVars, bootVars, functionVars>>

\* The right-hand side of the clean-up: the comprehension reads the list.
T_Filter(t) ==
    /\ pc[t] = "clean"
    /\ tkept' = [tkept EXCEPT ![t] = CleanOld(requests[tclient[t]], tnow[t])]
    /\ pc' = [pc EXCEPT ![t] = "store"]
    /\ UNCHANGED <<requests, now, calls, tclient, tnow, gatewayVars, bootVars, functionVars>>

\* self.requests[client_id] = <the list built>
T_Store(t) ==
    /\ pc[t] = "store"
    /\ requests' = [requests EXCEPT ![tclient[t]] = tkept[t]]
    /\ pc' = [pc EXCEPT ![t] = "check"]
    /\ UNCHANGED <<now, calls, tclient, tnow, tkept, gatewayVars, bootVars, functionVars>>

\* if len(self.requests[client_id]) >= self.max_requests: return False
T_Check(t) ==
    /\ pc[t] = "check"
    /\ IF OverLimit(Len(requests[tclient[t]]))
       THEN /\ pc' = [pc EXCEPT ![t] = "idle"]
            /\ calls' = Append(calls,
                   [client |-> tclient[t], time |-> tnow[t], ok |-> FALSE])
       ELSE /\ pc' = [pc EXCEPT ![t] = "append"]
            /\ UNCHANGED calls
    /\ UNCHANGED <<requests, now, tclient, tnow, tkept, gatewayVars, bootVars, functionVars>>

\* self.requests[client_id].append(now); return True
T_Append(t) ==
    /\ pc[t] = "append"
    /\ requests' = [requests EXCEPT ![tclient[t]] = Append(@, tnow[t])]
    /\ calls' = Append(calls, [client |-> tclient[t], time |-> tnow[t], ok |-> TRUE])
    /\ pc' = [pc EXCEPT ![t] = "idle"]
    /\ UNCHANGED <<now, tclient, tnow, tkept, gatewayVars, bootVars, functionVars>>

NextThreads ==
    \/ Tick
    \/ \E t \in Threads : \E c \in Clients : T_Enter(t, c)
    \/ \E t \in Threads : T_Filter(t)
    \/ \E t \in Threads : T_Store(t)
    \/ \E t \in Threads : T_Check(t)
    \/ \E t \in Threads : T_Append(t)

SpecThreads == Init /\ [][NextThreads]_vars

\* ------------------------------------------------ AuthGuard (Basic auth)

Usernames == {"admin", "eve"}
Passwords == {"s3cret", "guess"}

\* request.authorization: None, or a username/password pair.
Auths ==
    {NoAuth} \cup
    {[present |-> TRUE, username |-> u, password |-> p] :
        u \in Usernames, p \in Passwords}

\* os.getenv('BASIC_AUTH_USERNAME', 'admin'): the default.
expected_username == "admin"

\* hashlib.sha256(s.encode()).hexdigest(), on the strings of the model.
Sha256Hex(s) ==
    CASE s = "admin" ->
           "8c6976e5b5410415bde908bd4dee15dfb167a9c873fc4bb8a81f6f2ab448a918"
      [] s = "eve" ->
           "85262adf74518bbb70c7cb94cd6159d91669e5a81edf1efebd543eadbda9fa2b"
      [] s = "" ->
           "e3b0c44298fc1c149afbf4c8996fb92427ae41e4649b934ca495991b7852b855"
      [] s = "s3cret" ->
           "1ec1c26b50d5d3c58d9583181af8076655fe00756bf7285940ba3670f99fcba0"
      [] s = "guess" ->
           "f1abe1b083d12d181ae136cfc75b8d18a8ecb43ac4e9d1a36d6a9c75b6016b61"

\* check_auth with the password comparison dropped.
check_auth_UsernameOnly(username, password) ==
    IF expected_password = ""
    THEN TRUE
    ELSE Sha256Hex(username) = Sha256Hex(expected_username)

\* check_auth returning False when no password is set, as its comment says.
check_auth_DenyUnset(username, password) ==
    IF expected_password = ""
    THEN FALSE
    ELSE /\ Sha256Hex(username) = Sha256Hex(expected_username)
         /\ Sha256Hex(password) = Sha256Hex(expected_password)

check_auth(username, password) ==
    IF expected_password = ""
    THEN TRUE
    ELSE LET username_match ==
                 Sha256Hex(username) = Sha256Hex(expected_username)
             password_match ==
                 Sha256Hex(password) = Sha256Hex(expected_password)
         IN  username_match /\ password_match

\* requires_auth's test `not auth or not check_auth(auth.username, auth.password)`.
AuthDenied(auth) ==
    \/ ~auth.present
    \/ ~check_auth(auth.username, auth.password)

\* ------------------------------------------------------ routes and handlers

\* The routes of each file that serve JSON.
Routes(g) ==
    IF g = "secure"
    THEN {"health", "accounts", "transactions", "statistics", "demo-data"}
    ELSE {"health", "transactions"}

\* The decorators under @app.route, outermost first.
Decorators_RateLimitFirst(g, endpoint) ==
    IF g = "secure" /\ endpoint \in {"accounts", "transactions", "statistics"}
    THEN <<"rate_limit", "requires_auth">>
    ELSE <<>>

Decorators_StatisticsOpen(g, endpoint) ==
    IF g = "secure" /\ endpoint \in {"accounts", "transactions"}
    THEN <<"requires_auth", "rate_limit">>
    ELSE <<>>

Decorators(g, endpoint) ==
    IF g = "secure" /\ endpoint \in {"accounts", "transactions", "statistics"}
    THEN <<"requires_auth", "rate_limit">>
    ELSE <<>>

\* The upstream calls a handler sets out to make, in order.
PlannedCalls(endpoint, has_account_id, n_accounts) ==
    CASE endpoint = "accounts" -> <<"MonetaryAccountBank.list">>
      [] endpoint = "transactions" /\ has_account_id -> <<"Payment.list">>
      [] endpoint \in {"transactions", "statistics"} /\ ~has_account_id ->
             <<"MonetaryAccountBank.list">> \o [i \in 1..n_accounts |-> "Payment.list"]
      [] OTHER -> <<>>

\* The same calls, each with the account it is for (0: the account listing;
\* account_id is taken as account 1) and whether it raises.
PlannedAttempts(endpoint, has_account_id, n_accounts, fail_at) ==
    LET planned == PlannedCalls(endpoint, has_account_id, n_accounts)
    IN  [k \in DOMAIN planned |->
            [op |-> planned[k],
             account |-> IF planned[k] = "MonetaryAccountBank.list" THEN 0
                         ELSE IF has_account_id THEN 1 ELSE k - 1,
             raises |-> (k = fail_at)]]

\* The run with the call that raised made a second time.
UpstreamRun_Retry(planned, fail_at) ==
    IF fail_at = 0 \/ fail_at > Len(planned)
    THEN [calls |-> planned, failed |-> FALSE]
    ELSE [calls |-> Append(SubSeq(planned, 1, fail_at), planned[fail_at]),
          failed |-> TRUE]

\* The calls made when call number fail_at raises (0: none raises): the
\* exception leaves the try block, so no later call is made.
UpstreamRun(planned, fail_at) ==
    IF fail_at = 0 \/ fail_at > Len(planned)
    THEN [calls |-> planned, failed |-> FALSE]
    ELSE [calls |-> SubSeq(planned, 1, fail_at), failed |-> TRUE]

\* A route function's answer: status, envelope, whether the data came from
\* the demo generator, and the upstream calls made.
Answer(st, ok, src, syn, ups) ==
    [status |-> st, success |-> ok, source |-> src, synthetic |-> syn,
     upstream |-> ups, failed |-> FALSE, attempts |-> <<>>, listed |-> 0,
     data |-> <<>>, api_status |-> "none"]

\* The handlers' test `if not API_KEY`.
NoKey_Ignored == FALSE

NoKey == API_KEY = ""

\* The handlers' except branch, with the failure dropped.
FailureAnswer_Dropped(g, ups) ==
    IF g = "secure"
    THEN Answer(200, TRUE, "none", FALSE, ups)
    ELSE Answer(200, TRUE, "bunq_api", FALSE, ups)

\* The handlers' except branch: the secure file answers 500, api_proxy.py
\* returns generate_demo_transactions(days).
FailureAnswer(g, ups) ==
    IF g = "secure"
    THEN Answer(500, FALSE, "none", FALSE, ups)
    ELSE Answer(200, TRUE, "demo_data", TRUE, ups)

\* all_transactions when the loop over the accounts ends or is left: the
\* payments of every account whose listing returned, tagged with the account.
FetchedSoFar(tried) ==
    LET done == SelectSeq(tried, LAMBDA t : t.op = "Payment.list" /\ ~t.raises)
    IN  [k \in DOMAIN done |-> [origin |-> "bunq", account |-> done[k].account]]

\* What generate_demo_transactions puts in 'data'.
Generated == <<[origin |-> "generator", account |-> 0]>>

\* The fallback with the payments fetched so far kept in the answer.
TransactionData_KeepsFetched(answer, tried) ==
    IF ~answer.success THEN <<>>
    ELSE IF answer.synthetic THEN FetchedSoFar(tried) \o Generated
    ELSE FetchedSoFar(tried)

\* 'data' of a transactions response: all_transactions on the try path, the
\* generator's list alone when generate_demo_transactions(days) is returned,
\* nothing in an error body.
TransactionData(answer, tried) ==
    IF ~answer.success THEN <<>>
    ELSE IF answer.synthetic THEN Generated
    ELSE FetchedSoFar(tried)

\* health_check's 'api_status': 'initialized' if API_KEY else 'demo_mode'.
ApiStatus == IF API_KEY # "" THEN "initialized" ELSE "demo_mode"

\* The body of a route function.  The handlers test API_KEY only; without a
\* loaded api context every endpoint call raises at once.
Handler(g, endpoint, has_account_id, n_accounts, fail_at) ==
    LET raising == IF bunq_ready THEN fail_at ELSE 1
        run == UpstreamRun(PlannedCalls(endpoint, has_account_id, n_accounts),
                           raising)
        tried == UpstreamRun(PlannedAttempts(endpoint, has_account_id,
                                             n_accounts, raising), raising)
        answer ==
        CASE endpoint = "health" -> Answer(200, FALSE, "none", FALSE, <<>>)
          [] endpoint = "demo-data" -> Answer(200, TRUE, "none", TRUE, <<>>)
          [] g = "secure" ->
               IF NoKey THEN Answer(503, FALSE, "none", FALSE, <<>>)
               ELSE IF run.failed
               THEN [FailureAnswer(g, run.calls) EXCEPT !.failed = TRUE]
               ELSE Answer(200, TRUE, "none", FALSE, run.calls)
          [] OTHER ->
               IF NoKey THEN Answer(200, TRUE, "demo_data", TRUE, <<>>)
               ELSE IF run.failed
               THEN [FailureAnswer(g, run.calls) EXCEPT !.failed = TRUE]
               ELSE Answer(200, TRUE, "bunq_api", FALSE, run.calls)
        made == IF answer.upstream = <<>> THEN <<>> ELSE tried.calls
    IN  [answer EXCEPT
           !.attempts = made,
           !.listed = IF made # <<>> /\ made[1].op = "MonetaryAccountBank.list"
                         /\ ~made[1].raises
                      THEN n_accounts ELSE 0,
           !.data = IF endpoint = "transactions"
                    THEN TransactionData(answer, made) ELSE <<>>,
           !.api_status = IF endpoint = "health" THEN ApiStatus ELSE "none"]

\* A request through the decorators `decs` and then the route function: the
\* response and the limiter's map afterwards.
RECURSIVE Serve(_, _, _)
Serve(decs, req, reqs) ==
    IF decs = <<>>
    THEN LET h == Handler(gateway, req.endpoint, req.has_account_id,
                          req.n_accounts, req.fail_at)
         IN  [resp |-> [NoResponse EXCEPT
                          !.endpoint = req.endpoint, !.client = req.client,
                          !.auth = req.auth, !.status = h.status,
                          !.handler_ran = TRUE, !.upstream = h.upstream,
                          !.success = h.success, !.source = h.source,
                          !.synthetic = h.synthetic, !.failed = h.failed,
                          !.attempts = h.attempts, !.listed = h.listed,
                          !.data = h.data, !.api_status = h.api_status],
              requests |-> reqs]
    ELSE IF Head(decs) = "requires_auth"
    THEN IF AuthDenied(req.auth)
         THEN \* authenticate(): 401 with the Basic challenge
              [resp |-> [NoResponse EXCEPT
                           !.endpoint = req.endpoint, !.client = req.client,
                           !.auth = req.auth, !.status = 401,
                           !.challenge = TRUE],
               requests |-> reqs]
         ELSE LET inner == Serve(Tail(decs), req, reqs)
              IN  [inner EXCEPT !.resp.auth_passed = TRUE]
    ELSE \* rate_limit
         LET r == IsAllowed(reqs[req.client], now)
             after == [reqs EXCEPT ![req.client] = r.list]
         IN  IF ~r.ok
             THEN [resp |-> [NoResponse EXCEPT
                              !.endpoint = req.endpoint, !.client = req.client,
                              !.auth = req.auth, !.status = 429,
                              !.limiter_called = TRUE],
                   requests |-> after]
             ELSE LET inner == Serve(Tail(decs), req, after)
                  IN  [inner EXCEPT !.resp.limiter_called = TRUE,
                                    !.resp.limiter_allowed = TRUE]

\* ------------------------------------------- SpecGateway: requests served

\* A process of either file, with its environment read at import.
GatewayInit ==
    /\ gateway \in {"secure", "permissive"}
    /\ expected_password \in {"", "s3cret"}
    /\ API_KEY \in {"", "key"}
    /\ bunq_ready \in {b \in BOOLEAN : b => API_KEY # ""}
    /\ resp = NoResponse

InitGateway ==
    /\ LimiterInit
    /\ ThreadsIdle
    /\ GatewayInit
    /\ NoBoots
    /\ NoCall

GatewayTick ==
    /\ now < MaxGatewayTime
    /\ now' = now + 1
    /\ UNCHANGED <<requests, calls, threadVars, gatewayVars, bootVars, functionVars>>

\* The query and the upstream's behaviour, as far as the route reads them:
\* whether account_id is given, how many accounts the upstream lists, and
\* which upstream call raises (0: none).
Queries(endpoint) ==
    CASE endpoint = "accounts" ->
           {[has_account_id |-> FALSE, n_accounts |-> 0, fail_at |-> f] : f \in 0..1}
      [] endpoint = "transactions" ->
           {[has_account_id |-> TRUE, n_accounts |-> 0, fail_at |-> f] : f \in 0..1}
           \cup
           {q \in [has_account_id : {FALSE}, n_accounts : 0..MaxAccounts,
                   fail_at : 0..(MaxAccounts + 1)] : q.fail_at <= q.n_accounts + 1}
      [] endpoint = "statistics" ->
           {q \in [has_account_id : {FALSE}, n_accounts : 0..MaxAccounts,
                   fail_at : 0..(MaxAccounts + 1)] : q.fail_at <= q.n_accounts + 1}
      [] OTHER -> {[has_account_id |-> FALSE, n_accounts |-> 0, fail_at |-> 0]}

\* One request, served to completion.
Request(endpoint, client, auth, q) ==
    /\ LET req == [endpoint |-> endpoint, client |-> client, auth |-> auth,
                   has_account_id |-> q.has_account_id,
                   n_accounts |-> q.n_accounts, fail_at |-> q.fail_at]
           out == Serve(Decorators(gateway, endpoint), req, requests)
       IN  /\ resp' = out.resp
           /\ requests' = out.requests
    /\ UNCHANGED <<now, calls, threadVars, gateway, expected_password, API_KEY,
                   bunq_ready, bootVars, functionVars>>

NextGateway ==
    \/ GatewayTick
    \/ \E endpoint \in Routes(gateway) : \E q \in Queries(endpoint) :
         \E client \in GatewayClients, auth \in Auths :
            Request(endpoint, client, auth, q)

SpecGateway == InitGateway /\ [][NextGateway]_vars

\* --------------------------------------------- SpecBoot: init_bunq at start

\* What the environment does to one run of init_bunq: whether
\* os.makedirs('config'), ApiContext.create, api_context.save,
\* ApiContext.restore and BunqContext.load_api_context return or raise, and
\* whether a save that raised left a file behind.
BootEnvs ==
    [makedirs_ok : BOOLEAN, create_ok : BOOLEAN, save_ok : BOOLEAN,
     save_leaves_file : BOOLEAN, restore_ok : BOOLEAN, load_ok : BOOLEAN]

BootRecord(g, key, file, created, saved, restored, file_after, result) ==
    [gateway |-> g, api_key |-> (key # ""), file_before |-> file,
     create_called |-> created, save_called |-> saved,
     restore_called |-> restored, file_after |-> file_after,
     result |-> result]

\* init_bunq with the context never saved after ApiContext.create.
init_bunq_NoSave(g, key, file, env) ==
    IF key = ""
    THEN BootRecord(g, key, file, FALSE, FALSE, FALSE, file, FALSE)
    ELSE IF g = "permissive" /\ ~file /\ ~env.makedirs_ok
    THEN BootRecord(g, key, file, FALSE, FALSE, FALSE, file, FALSE)
    ELSE IF ~file
    THEN IF ~env.create_ok
         THEN BootRecord(g, key, file, TRUE, FALSE, FALSE, file, FALSE)
         ELSE BootRecord(g, key, file, TRUE, FALSE, FALSE, file, env.load_ok)
    ELSE IF ~env.restore_ok
         THEN BootRecord(g, key, file, FALSE, FALSE, TRUE, file, FALSE)
         ELSE BootRecord(g, key, file, FALSE, FALSE, TRUE, file, env.load_ok)

\* init_bunq of either file, with `file` = os.path.exists(CONFIG_FILE) on
\* entry: what it called, whether the file exists afterwards, and its result.
\* Any exception inside the try block returns False.
init_bunq(g, key, file, env) ==
    IF key = ""
    THEN BootRecord(g, key, file, FALSE, FALSE, FALSE, file, FALSE)
    ELSE IF g = "permissive" /\ ~file /\ ~env.makedirs_ok
    THEN \* os.makedirs('config', exist_ok=True) raised (api_proxy.py only)
         BootRecord(g, key, file, FALSE, FALSE, FALSE, file, FALSE)
    ELSE IF ~file
    THEN IF ~env.create_ok
         THEN BootRecord(g, key, file, TRUE, FALSE, FALSE, file, FALSE)
         ELSE IF ~env.save_ok
         THEN BootRecord(g, key, file, TRUE, TRUE, FALSE,
                         env.save_leaves_file, FALSE)
         ELSE BootRecord(g, key, file, TRUE, TRUE, FALSE, TRUE, env.load_ok)
    ELSE IF ~env.restore_ok
         THEN BootRecord(g, key, file, FALSE, FALSE, TRUE, file, FALSE)
         ELSE BootRecord(g, key, file, FALSE, FALSE, TRUE, file, env.load_ok)

InitBoot ==
    /\ LimiterInit
    /\ ThreadsIdle
    /\ GatewayOff
    /\ NoBoots
    /\ NoCall

\* One process start: the module resolves API_KEY and __main__ runs init_bunq.
Start(g, key, env) ==
    /\ Len(boots) < MaxStarts
    /\ LET b == init_bunq(g, key, config_file, env)
       IN  /\ boots' = Append(boots, b)
           /\ config_file' = b.file_after
           /\ bunq_ready' = b.result
    /\ gateway' = g
    /\ API_KEY' = key
    /\ UNCHANGED <<requests, now, calls, threadVars, expected_password, resp,
                   functionVars>>

NextBoot ==
    \E g \in {"secure", "permissive"}, key \in {"", "key"}, env \in BootEnvs :
        Start(g, key, env)

SpecBoot == InitBoot /\ [][NextBoot]_vars

\* ------------------------- SpecSecret: get_api_key_from_vaultwarden applied
\* api_key[:10] of api_proxy.py.
LogPrefixLen == 10
\* item.get('type') == 1: a login item.
LoginType == 1

\* A credential of n characters (its characters are told apart by position).
Key(n) == [i \in 1..n |-> i]
Keys == {Key(n) : n \in 0..MaxKeyLen}
ItemPasswords == {Key(0), Key(LogPrefixLen), Key(MaxKeyLen)}

\* s[:n]
Prefix(s, n) == SubSeq(s, 1, IF Len(s) < n THEN Len(s) ELSE n)

\* One logger call; shown is the part of the credential formatted into it.
LogRecord(level, message, shown) ==
    [level |-> level, message |-> message, shown |-> shown]

\* The log line written when a credential was found: api_proxy_secure.py
\* logs its presence, api_proxy.py formats api_key[:10] into the line.
KeyLog(g, message, api_key) ==
    IF g = "secure"
    THEN LogRecord("info", message, <<>>)
    ELSE LogRecord("info", message, Prefix(api_key, LogPrefixLen))

\* VAULTWARDEN_ITEM_NAME (default) and the names the vault's items have.
item_name == "Bunq API Key"
ItemNames == {"Bunq API Key", "Netflix"}
ItemTypes == {LoginType, LoginType + 1}
VaultItem == [name : ItemNames, type : ItemTypes, password : ItemPasswords]
VaultItems == UNION {[1..n -> VaultItem] : n \in 0..MaxItems}

\* What requests.post / raise_for_status / json() / ['access_token'] of the
\* token step, and get / raise_for_status / json().get('data') of the item
\* step, can do: succeed or raise.
TokenOutcomes ==
    {"ok", "ConnectionError", "Timeout", "HTTPError", "JSONDecodeError",
     "KeyError"}
ItemsOutcomes ==
    {"ok", "ConnectionError", "Timeout", "HTTPError", "JSONDecodeError",
     "AttributeError"}

\* The classes an exception is an instance of.
Ancestors(exc) ==
    CASE exc = "ConnectionError" ->
             {"ConnectionError", "RequestException", "Exception"}
      [] exc = "Timeout" -> {"Timeout", "RequestException", "Exception"}
      [] exc = "HTTPError" -> {"HTTPError", "RequestException", "Exception"}
      [] exc = "JSONDecodeError" ->
             {"JSONDecodeError", "ValueError", "Exception"}
      [] exc = "KeyError" -> {"KeyError", "LookupError", "Exception"}
      [] exc = "AttributeError" -> {"AttributeError", "Exception"}
      [] OTHER -> {exc}

\* The except clauses of the function, in order.
ExceptClauses ==
    <<"ConnectionError", "Timeout", "RequestException", "KeyError",
      "Exception">>

ItemMatches_AnyType(item) == item.name = item_name
ItemMatches(item) == item.name = item_name /\ item.type = LoginType

\* The index of the item the for loop stops at, 0 when it runs to the end.
FirstMatch(items) ==
    LET S == {i \in DOMAIN items : ItemMatches(items[i])}
    IN  IF S = {} THEN 0 ELSE CHOOSE i \in S : \A j \in S : i <= j

\* What one call does: the value returned (is_none tells None from ''),
\* whether an exception left the function, the log lines and the requests
\* sent.
Outcome(value, is_none, raised, log, network) ==
    [value |-> value, is_none |-> is_none, raised |-> raised, log |-> log,
     network |-> network]

\* exc raised inside the try block after the log lines and requests given.
Raise(exc, log, network) ==
    LET S == {i \in DOMAIN ExceptClauses : ExceptClauses[i] \in Ancestors(exc)}
    IN  IF S = {}
        THEN Outcome(<<>>, TRUE, TRUE, log, network)
        ELSE LET i == CHOOSE i \in S : \A j \in S : i <= j
             IN  Outcome(<<>>, TRUE, FALSE,
                         Append(log, LogRecord("error", ExceptClauses[i], <<>>)),
                         network)

get_api_key_from_vaultwarden(g, a) ==
    LET start == <<LogRecord("info", "Retrieving API key", <<>>)>>
        auth == Append(start, LogRecord("info", "Authenticating", <<>>))
        search == auth \o <<LogRecord("info", "authentication successful", <<>>),
                            LogRecord("info", "Searching for vault item", <<>>)>>
        token_call == <<"POST /identity/connect/token">>
        both_calls == Append(token_call, "GET /api/ciphers")
        i == FirstMatch(a.items)
    IN  IF ~a.use_vaultwarden
        THEN Outcome(a.env_key, FALSE, FALSE,
                     <<LogRecord("info", "Vaultwarden disabled", <<>>)>> \o
                     (IF a.env_key # <<>>
                      THEN <<KeyLog(g, "API key loaded from environment",
                                    a.env_key)>>
                      ELSE IF g = "permissive"
                           THEN <<LogRecord("warning", "No API key found", <<>>)>>
                           ELSE <<>>),
                     <<>>)
        ELSE IF a.client_id = "" \/ a.client_secret = ""
        THEN Outcome(<<>>, TRUE, FALSE,
                     start \o <<LogRecord("error", "credentials missing", <<>>),
                                LogRecord("error", "Required", <<>>)>>,
                     <<>>)
        ELSE IF a.token # "ok" THEN Raise(a.token, auth, token_call)
        ELSE IF a.items_step # "ok" THEN Raise(a.items_step, search, both_calls)
        ELSE IF i = 0
        THEN Outcome(<<>>, TRUE, FALSE,
                     search \o <<LogRecord("error", "not found in vault", <<>>),
                                 LogRecord("info", "Available items", <<>>)>>,
                     both_calls)
        ELSE IF a.items[i].password # <<>>
        THEN Outcome(a.items[i].password, FALSE, FALSE,
                     Append(search, KeyLog(g, "API key retrieved from vault",
                                           a.items[i].password)),
                     both_calls)
        ELSE Outcome(<<>>, TRUE, FALSE,
                     Append(search,
                            LogRecord("error", "password field is empty", <<>>)),
                     both_calls)

\* The environment and the vault's behaviour one call can meet.
VaultOff ==
    [use_vaultwarden |-> FALSE, env_key |-> <<>>, client_id |-> "id",
     client_secret |-> "secret", token |-> "ok", items_step |-> "ok",
     items |-> <<>>]
VaultOn == [VaultOff EXCEPT !.use_vaultwarden = TRUE]
SecretArgs ==
    {[VaultOff EXCEPT !.env_key = k] : k \in Keys}
    \cup {[VaultOn EXCEPT !.client_id = c, !.client_secret = cs, !.env_key = k] :
             c \in {"", "id"}, cs \in {"", "secret"},
             k \in {Key(0), Key(MaxKeyLen)}}
    \cup {[VaultOn EXCEPT !.token = t] : t \in TokenOutcomes}
    \cup {[VaultOn EXCEPT !.items_step = t] : t \in ItemsOutcomes}
    \cup {[VaultOn EXCEPT !.items = items] : items \in VaultItems}

InitSecret ==
    /\ LimiterInit
    /\ ThreadsIdle
    /\ GatewayOff
    /\ NoBoots
    /\ call_args \in {[fn |-> "get_api_key_from_vaultwarden", gateway |-> g,
                        a |-> a] :
                          g \in {"secure", "permissive"}, a \in SecretArgs}
    /\ call_result = <<>>

\* The module calls get_api_key_from_vaultwarden() once at import.
Resolve ==
    /\ call_args.fn = "get_api_key_from_vaultwarden"
    /\ call_result = <<>>
    /\ call_result' = get_api_key_from_vaultwarden(call_args.gateway,
                                                     call_args.a)
    /\ UNCHANGED <<limiterVars, threadVars, gatewayVars, bootVars, call_args>>

NextSecret == Resolve

SpecSecret == InitSecret /\ [][NextSecret]_vars

\* ------------------------------- SpecFetch: get_transactions on upstream data
\* The accounts of the user; account_id 0 stands for an absent account_id
\* parameter and for a transaction without the account_id key.
FetchAccounts == {1, 2}
AccountName(id) == IF id = 1 THEN "Betaalrekening" ELSE "Spaarrekening"

\* MonetaryAccountBank.list().value: the accounts in the upstream's order.
AccountListings ==
    {<<>>} \cup {<<a>> : a \in FetchAccounts}
           \cup {l \in FetchAccounts \X FetchAccounts : l[1] # l[2]}

\* Payment.list(monetary_account_id).value for account a: the k-th payment
\* has an id of its own and the creation day created[k].
PaymentsOf(a, created) ==
    [k \in 1..Len(created) |-> [id |-> <<a, k>>, created |-> created[k]]]
CreatedLists(max) == UNION {[1..n -> 0..MaxFetchTime] : n \in 0..max}

\* datetime.now() of the fetch.
FetchNow == MaxFetchTime

\* `if created < cutoff_date: continue`
Kept_AfterCutoff(created, cutoff_date) == created > cutoff_date
Kept(created, cutoff_date) == ~(created < cutoff_date)

\* The dict appended for a payment (the fields the claims are about).
Transaction(payment) ==
    [id |-> payment.id, date |-> payment.created, account_id |-> 0,
     account_name |-> ""]

get_account_transactions(payments, days) ==
    LET cutoff_date == FetchNow - days
        transactions[k \in 0..Len(payments)] ==
            IF k = 0 THEN <<>>
            ELSE IF Kept(payments[k].created, cutoff_date)
                 THEN Append(transactions[k - 1], Transaction(payments[k]))
                 ELSE transactions[k - 1]
    IN  transactions[Len(payments)]

\* trans['account_id'] = account.id_; trans['account_name'] = account.description
Tagged(transactions, account) ==
    [i \in DOMAIN transactions |->
        [transactions[i] EXCEPT !.account_id = account,
                                !.account_name = AccountName(account)]]

\* all_transactions.extend(transactions)
Extend_Front(all_transactions, transactions) == transactions \o all_transactions
Extend(all_transactions, transactions) == all_transactions \o transactions

\* One upstream call.
UpstreamCall(op, account) == [op |-> op, account |-> account]

\* The live path of get_transactions: the data of the answer and the
\* upstream calls made, in order.
get_transactions(a) ==
    IF a.account_id = 0
    THEN LET all_transactions[k \in 0..Len(a.accounts)] ==
                 IF k = 0 THEN <<>>
                 ELSE Extend(all_transactions[k - 1],
                             Tagged(get_account_transactions(
                                        a.payments[a.accounts[k]], a.days),
                                    a.accounts[k]))
         IN  [data |-> all_transactions[Len(a.accounts)],
              network |-> <<UpstreamCall("MonetaryAccountBank.list", 0)>> \o
                          [k \in 1..Len(a.accounts) |->
                              UpstreamCall("Payment.list", a.accounts[k])]]
    ELSE [data |-> get_account_transactions(a.payments[a.account_id], a.days),
          network |-> <<UpstreamCall("Payment.list", a.account_id)>>]

\* The request's parameters and what the upstream holds: up to MaxPayments
\* payments on account 1, at most one on account 2.
FetchArgs ==
    {[account_id |-> id, days |-> d, accounts |-> l,
      payments |-> [a \in FetchAccounts |->
                       PaymentsOf(a, IF a = 1 THEN c1 ELSE c2)]] :
        id \in {0} \cup FetchAccounts, d \in 0..MaxFetchTime,
        l \in AccountListings, c1 \in CreatedLists(MaxPayments),
        c2 \in CreatedLists(1)}

InitFetch ==
    /\ LimiterInit
    /\ ThreadsIdle
    /\ GatewayOff
    /\ NoBoots
    /\ call_args \in {[fn |-> "get_transactions", a |-> a] : a \in FetchArgs}
    /\ call_result = <<>>

Fetch ==
    /\ call_args.fn = "get_transactions"
    /\ call_result = <<>>
    /\ call_result' = get_transactions(call_args.a)
    /\ UNCHANGED <<limiterVars, threadVars, gatewayVars, bootVars, call_args>>

NextFetch == Fetch

SpecFetch == InitFetch /\ [][NextFetch]_vars

\* ------------------------------ SpecCategorize: categorize_transaction applied
\* A text is the sequence of its characters.
UpperCase ==
    <<"A", "B", "C", "D", "E", "F", "G", "H", "I", "J", "K", "L", "M", "N",
      "O", "P", "Q", "R", "S", "T", "U", "V", "W", "X", "Y", "Z",
      "E_acute">>
LowerCase ==
    <<"a", "b", "c", "d", "e", "f", "g", "h", "i", "j", "k", "l", "m", "n",
      "o", "p", "q", "r", "s", "t", "u", "v", "w", "x", "y", "z",
      "e_acute">>

\* str.lower(), character by character.
LowerChar(c) ==
    IF \E i \in DOMAIN UpperCase : UpperCase[i] = c
    THEN LowerCase[CHOOSE i \in DOMAIN UpperCase : UpperCase[i] = c]
    ELSE c
Lower(s) == [i \in DOMAIN s |-> LowerChar(s[i])]

\* `word in combined`
Contains(combined, word) ==
    \E i \in 1..(Len(combined) - Len(word) + 1) :
        SubSeq(combined, i, i + Len(word) - 1) = word

\* The keyword lists of the if / elif chain.
GroceriesWords ==
    {<<"a", "l", "b", "e", "r", "t", " ", "h", "e", "i", "j", "n">>,
     <<"a", "h", " ">>, <<"j", "u", "m", "b", "o">>, <<"l", "i", "d", "l">>,
     <<"a", "l", "d", "i">>, <<"p", "l", "u", "s">>,
     <<"s", "u", "p", "e", "r", "m", "a", "r", "k", "t">>}
DiningWords ==
    {<<"r", "e", "s", "t", "a", "u", "r", "a", "n", "t">>,
     <<"c", "a", "f", "e">>, <<"b", "a", "r">>, <<"p", "i", "z", "z", "a">>,
     <<"b", "u", "r", "g", "e", "r">>,
     <<"s", "t", "a", "r", "b", "u", "c", "k", "s">>}
TransportWords ==
    {<<"n", "s", " ">>, <<"t", "r", "a", "i", "n">>, <<"b", "u", "s">>,
     <<"t", "a", "x", "i">>, <<"u", "b", "e", "r">>,
     <<"p", "a", "r", "k", "i", "n", "g">>, <<"s", "h", "e", "l", "l">>,
     <<"b", "e", "n", "z", "i", "n", "e">>}
HousingWords ==
    {<<"h", "u", "u", "r">>, <<"r", "e", "n", "t">>,
     <<"h", "y", "p", "o", "t", "h", "e", "e", "k">>,
     <<"m", "o", "r", "t", "g", "a", "g", "e">>}
UtilitiesWords ==
    {<<"e", "n", "e", "c", "o">>, <<"e", "n", "e", "r", "g", "i", "e">>,
     <<"g", "a", "s">>, <<"w", "a", "t", "e", "r">>,
     <<"z", "i", "g", "g", "o">>, <<"k", "p", "n">>,
     <<"t", "e", "l", "e", "c", "o", "m">>}
ShoppingWords ==
    {<<"b", "o", "l", ".", "c", "o", "m">>,
     <<"c", "o", "o", "l", "b", "l", "u", "e">>,
     <<"m", "e", "d", "i", "a", "m", "a", "r", "k", "t">>,
     <<"z", "a", "r", "a">>, <<"h", "&", "m">>, <<"s", "h", "o", "p">>}
EntertainmentWords ==
    {<<"n", "e", "t", "f", "l", "i", "x">>,
     <<"s", "p", "o", "t", "i", "f", "y">>,
     <<"y", "o", "u", "t", "u", "b", "e">>, <<"c", "i", "n", "e", "m", "a">>,
     <<"p", "a", "t", "h", "e_acute">>,
     <<"c", "o", "n", "c", "e", "r", "t">>}
HealthWords ==
    {<<"a", "p", "o", "t", "h", "e", "e", "k">>,
     <<"p", "h", "a", "r", "m", "a", "c", "y">>,
     <<"d", "o", "k", "t", "e", "r">>, <<"d", "o", "c", "t", "o", "r">>,
     <<"t", "a", "n", "d", "a", "r", "t", "s">>,
     <<"d", "e", "n", "t", "i", "s", "t">>}
InsuranceWords ==
    {<<"i", "n", "t", "e", "r", "p", "o", "l", "i", "s">>,
     <<"v", "e", "r", "z", "e", "k", "e", "r", "i", "n", "g">>,
     <<"i", "n", "s", "u", "r", "a", "n", "c", "e">>,
     <<"z", "i", "l", "v", "e", "r", "e", "n", " ", "k", "r", "u", "i", "s">>}
IncomeWords ==
    {<<"s", "a", "l", "a", "r", "i", "s">>, <<"s", "a", "l", "a", "r", "y">>,
     <<"l", "o", "o", "n">>, <<"w", "a", "g", "e">>}

Rule(group, label, words) == [group |-> group, label |-> label, words |-> words]

\* The chain with the income rule moved to the front.
Rules_IncomeFirst(g) ==
    IF g = "secure"
    THEN <<Rule("income", "Salaris", IncomeWords),
           Rule("groceries", "Boodschappen", GroceriesWords),
           Rule("dining", "Horeca", DiningWords),
           Rule("transport", "Vervoer", TransportWords),
           Rule("housing", "Wonen", HousingWords),
           Rule("utilities", "Utilities", UtilitiesWords),
           Rule("shopping", "Shopping", ShoppingWords),
           Rule("entertainment", "Entertainment", EntertainmentWords),
           Rule("health", "Zorg", HealthWords)>>
    ELSE <<Rule("income", "Salaris", IncomeWords),
           Rule("groceries", "Boodschappen", GroceriesWords),
           Rule("dining", "Uitgaan", DiningWords),
           Rule("transport", "Vervoer", TransportWords),
           Rule("housing", "Wonen", HousingWords),
           Rule("utilities", "Wonen", UtilitiesWords),
           Rule("insurance", "Verzekering", InsuranceWords)>>
\* The chain of each file, in order.
Rules(g) ==
    IF g = "secure"
    THEN <<Rule("groceries", "Boodschappen", GroceriesWords),
           Rule("dining", "Horeca", DiningWords),
           Rule("transport", "Vervoer", TransportWords),
           Rule("housing", "Wonen", HousingWords),
           Rule("utilities", "Utilities", UtilitiesWords),
           Rule("shopping", "Shopping", ShoppingWords),
           Rule("entertainment", "Entertainment", EntertainmentWords),
           Rule("health", "Zorg", HealthWords),
           Rule("income", "Salaris", IncomeWords)>>
    ELSE <<Rule("groceries", "Boodschappen", GroceriesWords),
           Rule("dining", "Uitgaan", DiningWords),
           Rule("transport", "Vervoer", TransportWords),
           Rule("housing", "Wonen", HousingWords),
           Rule("utilities", "Wonen", UtilitiesWords),
           Rule("insurance", "Verzekering", InsuranceWords),
           Rule("income", "Salaris", IncomeWords)>>

\* any(word in combined for word in [...])
AnyWord(words, combined) == \E word \in words : Contains(combined, word)

\* The branch of the chain that is taken: 0 for the else branch.
TakenRule_Last(rules, combined) ==
    LET S == {i \in DOMAIN rules : AnyWord(rules[i].words, combined)}
    IN  IF S = {} THEN 0 ELSE CHOOSE i \in S : \A j \in S : j <= i
TakenRule(rules, combined) ==
    LET S == {i \in DOMAIN rules : AnyWord(rules[i].words, combined)}
    IN  IF S = {} THEN 0 ELSE CHOOSE i \in S : \A j \in S : i <= j

\* description and display_name are <<>> when None or empty.
categorize_transaction(g, description, display_name) ==
    LET desc_lower == Lower(description)
        counter_lower == Lower(display_name)
        combined == desc_lower \o <<" ">> \o counter_lower
        i == TakenRule(Rules(g), combined)
    IN  IF i = 0 THEN "Overig" ELSE Rules(g)[i].label

\* The payments categorized.
Descriptions ==
    {<<>>, <<"A", "H">>, <<"J", "u", "m", "b", "o">>,
     <<"P", "i", "z", "z", "a", " ", "B", "a", "r">>, <<"N", "S">>,
     <<"H", "u", "u", "r", " ", "m", "a", "a", "r", "t">>,
     <<"E", "n", "e", "c", "o">>,
     <<"I", "n", "t", "e", "r", "p", "o", "l", "i", "s">>,
     <<"N", "e", "t", "f", "l", "i", "x">>,
     <<"S", "a", "l", "a", "r", "i", "s">>,
     <<"T", "a", "n", "d", "a", "r", "t", "s">>, <<"B", "o", "e", "k">>,
     <<"L", "i", "d", "l", " ", "R", "e", "s", "t", "a", "u", "r", "a", "n", "t">>,
     <<"Z", "o", "r", "g", "v", "e", "r", "z", "e", "k", "e", "r", "i", "n", "g">>,
     <<"S", "A", "L", "A", "R", "Y", " ", "S", "h", "e", "l", "l">>,
     <<"P", "a", "t", "h", "e_acute">>}
DisplayNames ==
    {<<>>, <<"W", "e", "r", "k", "g", "e", "v", "e", "r", " ", "L", "o", "o", "n">>,
     <<"A", "l", "b", "e", "r", "t", " ", "H", "e", "i", "j", "n">>,
     <<"S", "p", "o", "t", "i", "f", "y">>, <<"B", "u", "s">>}

InitCategorize ==
    /\ LimiterInit
    /\ ThreadsIdle
    /\ GatewayOff
    /\ NoBoots
    /\ call_args \in {[fn |-> "categorize_transaction", gateway |-> g,
                       description |-> d, display_name |-> c] :
                         g \in {"secure", "permissive"}, d \in Descriptions,
                         c \in DisplayNames}
    /\ call_result = <<>>

Categorize ==
    /\ call_args.fn = "categorize_transaction"
    /\ call_result = <<>>
    /\ call_result' = [category |->
                          categorize_transaction(call_args.gateway,
                                                 call_args.description,
                                                 call_args.display_name)]
    /\ UNCHANGED <<limiterVars, threadVars, gatewayVars, bootVars, call_args>>

NextCategorize == Categorize

SpecCategorize == InitCategorize /\ [][NextCategorize]_vars

\* ------------------- SpecRun: one process from import to the requests served
\* The vault's behaviour one process meets at import: no vault with and
\* without a key in the environment, a failing token step, a failing item
\* step, and a vault holding the key or an unrelated item.
RunVaults ==
    {[VaultOff EXCEPT !.env_key = k] : k \in {Key(0), Key(MaxKeyLen)}}
    \cup {[VaultOn EXCEPT !.token = "Timeout"],
          [VaultOn EXCEPT !.items_step = "HTTPError"]}
    \cup {[VaultOn EXCEPT !.items =
              <<[name |-> n, type |-> LoginType, password |-> Key(MaxKeyLen)]>>] :
              n \in ItemNames}

\* The module is being imported: API_KEY is not assigned yet; an earlier
\* process may have left a session context behind.
InitRun ==
    /\ LimiterInit
    /\ ThreadsIdle
    /\ gateway \in {"secure", "permissive"}
    /\ expected_password = "s3cret"
    /\ API_KEY = ""
    /\ bunq_ready = FALSE
    /\ resp = NoResponse
    /\ config_file \in BOOLEAN
    /\ boots = <<>>
    /\ call_args \in {[fn |-> "get_api_key_from_vaultwarden", gateway |-> gateway,
                        a |-> a] : a \in RunVaults}
    /\ call_result = <<>>

\* API_KEY = get_api_key_from_vaultwarden() has run; __main__ calls
\* init_bunq() once. An exception leaving the import ends the process.
Boot(env) ==
    /\ call_result # <<>>
    /\ ~call_result.raised
    /\ boots = <<>>
    /\ LET key == IF call_result.is_none \/ call_result.value = <<>>
                  THEN "" ELSE "key"
           b == init_bunq(gateway, key, config_file, env)
       IN  /\ API_KEY' = key
           /\ boots' = <<b>>
           /\ config_file' = b.file_after
           /\ bunq_ready' = b.result
    /\ UNCHANGED <<requests, now, calls, threadVars, gateway, expected_password,
                   resp, functionVars>>

\* app.run() serves requests once init_bunq has returned.
Serving == boots # <<>>

NextRun ==
    \/ Resolve
    \/ \E env \in BootEnvs : Boot(env)
    \/ Serving /\ GatewayTick
    \/ \E endpoint \in Routes(gateway) : \E q \in Queries(endpoint) :
         \E client \in GatewayClients, auth \in Auths :
            Serving /\ Request(endpoint, client, auth, q)

SpecRun == InitRun /\ [][NextRun]_vars

\* ------------------------------------ SpecStatistics: get_statistics applied
\* abs(x)
Abs(x) == IF x < 0 THEN 0 - x ELSE x

\* sum(t['amount'] for t in transactions)
SumAmounts(transactions) ==
    LET total[k \in 0..Len(transactions)] ==
            IF k = 0 THEN 0 ELSE total[k - 1] + transactions[k].amount
    IN  total[Len(transactions)]

\* A quotient num / den, kept as the pair (whole numbers only).
Ratio(num, den) == [num |-> num, den |-> den]
Zero == Ratio(0, 1)

IsIncome(t) == t.amount > 0
\* `if t['amount'] < 0` of the category breakdown and of the expenses sum
IsExpense_NonZero(t) == t.amount # 0
IsExpense(t) == t.amount < 0

\* category_totals: one key per category that has an expense.
CategoryTotals(transactions) ==
    LET expenses == SelectSeq(transactions, IsExpense)
        cats == {expenses[i].category : i \in DOMAIN expenses}
        OfCat(cat) == SelectSeq(expenses, LAMBDA t : t.category = cat)
        total[cat \in cats] ==
            LET F[k \in 0..Len(OfCat(cat))] ==
                    IF k = 0 THEN 0 ELSE F[k - 1] + Abs(OfCat(cat)[k].amount)
            IN  F[Len(OfCat(cat))]
    IN  total

\* The 'data' object of get_statistics for the transactions fetched.
Statistics(all_transactions, days) ==
    LET income == SumAmounts(SelectSeq(all_transactions, IsIncome))
        expenses == Abs(SumAmounts(SelectSeq(all_transactions, IsExpense)))
        net_savings == income - expenses
    IN  [period_days |-> days,
         total_transactions |-> Len(all_transactions),
         income |-> income,
         expenses |-> expenses,
         net_savings |-> net_savings,
         savings_rate |-> IF income > 0
                          THEN Ratio(net_savings * 100, income)
                          ELSE Zero,
         categories |-> CategoryTotals(all_transactions),
         avg_daily_expenses |-> IF days > 0 THEN Ratio(expenses, days) ELSE Zero]

\* The transactions summarized and the days parameter.
StatCategories == {"Boodschappen", "Salaris"}
StatDays == {0 - 1, 0, 1, 3}
StatTransaction == [amount : (0 - MaxAmount)..MaxAmount, category : StatCategories]
StatArgs(max) ==
    {[all_transactions |-> l, days |-> d] :
        l \in UNION {[1..n -> StatTransaction] : n \in 0..max}, d \in StatDays}

InitStatistics ==
    /\ LimiterInit
    /\ ThreadsIdle
    /\ GatewayOff
    /\ NoBoots
    /\ call_args \in {[fn |-> "get_statistics", a |-> a] :
                         a \in StatArgs(MaxTransactions)}
    /\ call_result = <<>>

Summarize ==
    /\ call_args.fn = "get_statistics"
    /\ call_result = <<>>
    /\ call_result' = Statistics(call_args.a.all_transactions, call_args.a.days)
    /\ UNCHANGED <<limiterVars, threadVars, gatewayVars, bootVars, call_args>>

NextStatistics == Summarize

SpecStatistics == InitStatistics /\ [][NextStatistics]_vars

\* --------------------- SpecDemo: get_demo_data / generate_demo_transactions
\* range(days // 30): the salary period in days.
SalaryPeriod == 30
\* datetime.now(), as a day number.
DemoToday == 0

\* The keys of the category table random.choice draws from.
DemoCategories(g) ==
    IF g = "secure"
    THEN {"Boodschappen", "Horeca", "Vervoer", "Wonen", "Shopping",
          "Entertainment"}
    ELSE {"Boodschappen", "Wonen", "Vervoer", "Uitgaan", "Verzekering"}

\* range(days * 3), range(days * 2): the number of expense entries.
ExpenseEntries(g, days) == IF g = "secure" THEN days * 3 ELSE days * 2

\* range(days // 30), range(days // 30 + 1): the number of salary entries.
IncomeEntries(g, days) ==
    IF g = "secure" THEN days \div SalaryPeriod ELSE days \div SalaryPeriod + 1

\* random.randint(10, 100), random.randint(10, 150): the smallest and the
\* largest outcome.
AmountRolls(g) == IF g = "secure" THEN {10, 100} ELSE {10, 150}

\* The amount of an expense entry.
ExpenseAmount(g, category, roll) ==
    IF g = "secure" /\ category = "Wonen" THEN 0 - 850 ELSE 0 - roll

\* random.randint(0, days): the smallest and the largest outcome.
OffsetRolls_Beyond(days) == {0, days + 1}
OffsetRolls(days) == {0, days}

\* One appended dict (merchant and description left out).
DemoTransaction(id, date, amount, category) ==
    [id |-> id, date |-> date, amount |-> amount, category |-> category]

\* The salary entry of loop index i, appended when n entries are in the list.
SalaryEntry(g, i, n) ==
    IF g = "secure"
    THEN DemoTransaction(n, DemoToday - i * SalaryPeriod, 2800, "Salaris")
    ELSE DemoTransaction(9000 + i, DemoToday - i * SalaryPeriod, 3500, "Salaris")

DemoDays == {0, 1} \cup (SalaryPeriod - 1)..MaxDemoDays

\* The locals of a running generator: how many expense and salary entries are
\* appended, and the entry appended last.
DemoStart ==
    [expenses |-> 0, incomes |-> 0, last |-> <<>>, returned |-> FALSE,
     count |-> 0]

InitDemo ==
    /\ LimiterInit
    /\ ThreadsIdle
    /\ GatewayOff
    /\ NoBoots
    /\ call_args \in {[fn |-> "demo", gateway |-> g, days |-> d] :
                         g \in {"secure", "permissive"}, d \in DemoDays}
    /\ call_result = DemoStart

\* One pass of the expense loop.
EmitExpense ==
    /\ call_args.fn = "demo"
    /\ call_result.expenses < ExpenseEntries(call_args.gateway, call_args.days)
    /\ \E category \in DemoCategories(call_args.gateway),
          roll \in AmountRolls(call_args.gateway),
          offset \in OffsetRolls(call_args.days) :
           call_result' =
               [call_result EXCEPT
                   !.expenses = @ + 1,
                   !.last = DemoTransaction(
                                call_result.expenses, DemoToday - offset,
                                ExpenseAmount(call_args.gateway, category, roll),
                                category)]
    /\ UNCHANGED <<limiterVars, threadVars, gatewayVars, bootVars, call_args>>

\* One pass of the salary loop.
EmitIncome ==
    /\ call_args.fn = "demo"
    /\ call_result.expenses = ExpenseEntries(call_args.gateway, call_args.days)
    /\ call_result.incomes < IncomeEntries(call_args.gateway, call_args.days)
    /\ call_result' =
           [call_result EXCEPT
               !.incomes = @ + 1,
               !.last = SalaryEntry(call_args.gateway, call_result.incomes,
                                    call_result.expenses + call_result.incomes)]
    /\ UNCHANGED <<limiterVars, threadVars, gatewayVars, bootVars, call_args>>

\* return jsonify({... 'count': len(transactions) ...})
ReturnDemo ==
    /\ call_args.fn = "demo"
    /\ ~call_result.returned
    /\ call_result.expenses = ExpenseEntries(call_args.gateway, call_args.days)
    /\ call_result.incomes = IncomeEntries(call_args.gateway, call_args.days)
    /\ call_result' =
           [call_result EXCEPT
               !.returned = TRUE,
               !.count = call_result.expenses + call_result.incomes]
    /\ UNCHANGED <<limiterVars, threadVars, gatewayVars, bootVars, call_args>>

NextDemo == EmitExpense \/ EmitIncome \/ ReturnDemo

SpecDemo == InitDemo /\ [][NextDemo]_vars

\* ---------------------------------------------------------------- helpers

\* The calls of one client, in order.
CallsOf(c) == SelectSeq(calls, LAMBDA e : e.client = c)

\* The number of requests admitted for c in the trailing window (t - W, t].
AdmittedIn(c, t) ==
    Cardinality({i \in DOMAIN calls :
        /\ calls[i].client = c
        /\ calls[i].ok
        /\ calls[i].time > t - WindowSeconds
        /\ calls[i].time <= t})

\* C1: for every client and every trailing window of window_seconds, the
\* number of requests is_allowed admitted for that client inside the window
\* never exceeds max_requests.
C1_WindowBound ==
    \A c \in Clients : \A t \in Times : AdmittedIn(c, t) <= MaxRequests

\* A client was admitted max_requests times in one window, was then denied,
\* and was admitted again later: more than max_requests admissions over all.
C1_Witness ==
    \E c \in Clients :
        /\ \E t \in Times : AdmittedIn(c, t) = MaxRequests
        /\ \E i \in DOMAIN calls : calls[i].client = c /\ ~calls[i].ok
        /\ Cardinality({i \in DOMAIN calls : calls[i].client = c /\ calls[i].ok})
               > MaxRequests

\* C2: for a fresh client whose first call is at t0, the first max_requests
\* calls made before t0 + window_seconds all return True, the call number
\* max_requests + 1 made before t0 + window_seconds returns False, and the
\* first call made at or after t0 + window_seconds returns True.
C2_FirstCalls ==
    \A c \in Clients :
        LET L == CallsOf(c)
            t0 == L[1].time
            SameWindow(i) == L[i].time < t0 + WindowSeconds
        IN  Len(L) > 0 =>
              /\ \A i \in 1..Len(L) : (i <= MaxRequests /\ SameWindow(i)) => L[i].ok
              /\ (Len(L) > MaxRequests /\ SameWindow(MaxRequests + 1))
                     => ~L[MaxRequests + 1].ok
              /\ \A j \in 1..Len(L) :
                     (/\ ~SameWindow(j)
                      /\ \A k \in 1..(j - 1) : SameWindow(k)) => L[j].ok

\* A client made max_requests + 1 calls at the time of its first call, the
\* last of them denied, and called again exactly window_seconds later.
C2_Witness ==
    \E c \in Clients :
        LET L == CallsOf(c)
        IN  /\ Len(L) >= MaxRequests + 2
            /\ L[MaxRequests + 1].time = L[1].time
            /\ ~L[MaxRequests + 1].ok
            /\ L[MaxRequests + 2].time = L[1].time + WindowSeconds
            /\ L[MaxRequests + 2].ok
\* How often time x occurs in a list of request times.
CountIn(list, x) == Cardinality({i \in DOMAIN list : list[i] = x})

\* Every admitted request whose time is still inside the window that ends now
\* has its timestamp in the client's list.
NoLostTimestamp ==
    \A c \in Clients : \A x \in Times :
        x > now - WindowSeconds =>
            CountIn(requests[c], x) >=
                Cardinality({i \in DOMAIN calls :
                    calls[i].client = c /\ calls[i].ok /\ calls[i].time = x})

\* The is_allowed call logged last was for client c and returned False.
DeniedNow(c) ==
    /\ calls' # calls
    /\ calls'[Len(calls')].client = c
    /\ ~calls'[Len(calls')].ok

\* Call i is admitted exactly when fewer than max_requests earlier calls of
\* the same client were admitted inside the window ending at call i: the
\* denied calls in between play no part.
AdmissionIgnoresDenied ==
    \A i \in DOMAIN calls :
        calls[i].ok <=>
            Cardinality({j \in 1..(i - 1) :
                /\ calls[j].client = calls[i].client
                /\ calls[j].ok
                /\ calls[j].time > calls[i].time - WindowSeconds}) < MaxRequests

\* C26: a denied is_allowed call appends no timestamp: the client's list after
\* the call is its list before the call without the expired entries and holds
\* max_requests or more entries; denied calls never change when the client is
\* admitted again.
C26_DeniedRecordsNothing ==
    /\ [][\A c \in Clients :
             DeniedNow(c) =>
                 /\ requests'[c] =
                        SelectSeq(requests[c],
                                  LAMBDA x : x > now - WindowSeconds)
                 /\ Len(requests'[c]) >= MaxRequests]_vars
    /\ []AdmissionIgnoresDenied

\* A client was denied at two different times and admitted again exactly
\* window_seconds after its first admitted request.
C26_Witness ==
    \E c \in Clients :
        LET L == CallsOf(c)
        IN  \E i, j, k \in DOMAIN L :
                /\ i < j /\ j < k
                /\ L[1].ok
                /\ ~L[i].ok /\ ~L[j].ok
                /\ L[i].time < L[j].time
                /\ L[k].ok
                /\ L[k].time = L[1].time + WindowSeconds

\* C27: an is_allowed call evicts exactly the timestamps older than
\* now - window_seconds: a recorded timestamp x stays in the client's list,
\* and is counted, if and only if x >= now - window_seconds.
C27_KeepsBoundaryTimestamp ==
    [][\A c \in Clients :
          (calls' # calls /\ calls'[Len(calls')].client = c) =>
              \A x \in Times :
                  /\ (x >= now - WindowSeconds /\ x < now)
                         => CountIn(requests'[c], x) = CountIn(requests[c], x)
                  /\ x < now - WindowSeconds
                         => CountIn(requests'[c], x) = 0]_vars

\* C3: under every interleaving of is_allowed calls run by several request
\* threads, no client is admitted more than max_requests times within one
\* window, and the timestamp of an admitted request is never lost.
C3_ThreadSafe ==
    /\ \A c \in Clients : \A t \in Times : AdmittedIn(c, t) <= MaxRequests
    /\ NoLostTimestamp
\* ------------------------------------------------------- gateway claims

\* The routes the secure gateway decorates with @requires_auth and @rate_limit.
Protected == {"accounts", "transactions", "statistics"}

\* The request's credentials are absent or differ from the configured pair.
BadCredentials(auth) ==
    \/ ~auth.present
    \/ auth.username # expected_username
    \/ auth.password # expected_password

\* C4: in the secure gateway the body of get_accounts, get_transactions and
\* get_statistics, and so every upstream call, runs only for a request that
\* the auth guard passed and that the rate limiter admitted.
C4_HandlerBehindGuards ==
    (/\ gateway = "secure"
     /\ resp.endpoint \in Protected
     /\ (resp.handler_ran \/ resp.upstream # <<>>))
        => /\ resp.auth_passed
           /\ ~AuthDenied(resp.auth)
           /\ resp.limiter_called
           /\ resp.limiter_allowed

\* A transactions request passed both guards and its handler called upstream.
C4_Witness ==
    /\ gateway = "secure"
    /\ expected_password # ""
    /\ resp.endpoint = "transactions"
    /\ resp.handler_ran
    /\ resp.status = 200
    /\ Len(resp.upstream) > 0

\* C5: in both gateway files GET /api/transactions returns transaction data
\* (live or demo) only to a request that passed the auth guard and the rate
\* limiter.
C5_TransactionsGuarded ==
    (resp.endpoint = "transactions" /\ resp.handler_ran)
        => (resp.auth_passed /\ resp.limiter_allowed)

\* C6: with an operator password configured, a request to a protected
\* endpoint gets 401 with the Basic challenge, and the wrapped handler does
\* not run, exactly when it carries no credentials or its username or
\* password differs from the configured one; otherwise the wrapped handler
\* (the rate-limit wrapper around the route function) runs.
C6_ChallengeIffBadCredentials ==
    (/\ gateway = "secure"
     /\ expected_password # ""
     /\ resp.endpoint \in Protected)
        => IF BadCredentials(resp.auth)
           THEN /\ resp.status = 401
                /\ resp.challenge
                /\ ~resp.limiter_called
                /\ ~resp.handler_ran
           ELSE /\ resp.status # 401
                /\ ~resp.challenge
                /\ resp.limiter_called

\* A request with the right username and a wrong password was challenged.
C6_Witness ==
    /\ gateway = "secure"
    /\ expected_password # ""
    /\ resp.endpoint \in Protected
    /\ resp.auth.present
    /\ resp.auth.username = expected_username
    /\ resp.auth.password # expected_password
    /\ resp.status = 401

\* C7: when no operator password is configured, check_auth denies: no request
\* that presents credentials to a protected endpoint passes check_auth.
C7_DenyWhenUnset ==
    (/\ gateway = "secure"
     /\ expected_password = ""
     /\ resp.endpoint \in Protected
     /\ resp.auth.present)
        => /\ ~check_auth(resp.auth.username, resp.auth.password)
           /\ resp.status = 401

C9_AuthShortCircuits ==
    [][resp'.status = 401 => (~resp'.limiter_called /\ requests' = requests)]_vars

\* A request was answered 401 while its client had requests in its window.
C9_Witness ==
    /\ resp.status = 401
    /\ \E c \in GatewayClients : requests[c] # <<>>
\* C11: when the bootstrap failed although a credential is present, every
\* data request is answered as in demo mode (synthetic data or the 503
\* answer) and no upstream call is attempted.
C11_DegradesToDemo ==
    (/\ API_KEY # ""
     /\ ~bunq_ready
     /\ resp.handler_ran
     /\ resp.endpoint \in Protected)
        => /\ resp.upstream = <<>>
           /\ (resp.status = 503 \/ resp.synthetic)

\* C12: without a credential no handler calls the upstream: the secure
\* gateway answers accounts, transactions and statistics with 503 and
\* success = false, api_proxy.py answers /api/transactions with demo data.
C12_NoKeyNoUpstream ==
    (API_KEY = "" /\ resp.handler_ran)
        => /\ resp.upstream = <<>>
           /\ (gateway = "secure" /\ resp.endpoint \in Protected)
                 => (resp.status = 503 /\ ~resp.success /\ ~resp.synthetic)
           /\ (gateway = "permissive" /\ resp.endpoint = "transactions")
                 => (resp.status = 200 /\ resp.synthetic
                     /\ resp.source = "demo_data")

\* Without a credential, the secure get_transactions ran and answered 503.
C12_Witness ==
    /\ API_KEY = ""
    /\ gateway = "secure"
    /\ resp.endpoint = "transactions"
    /\ resp.handler_ran
    /\ resp.status = 503

\* C15: when an upstream call fails during GET /api/transactions with a
\* credential present, api_proxy.py answers with demo data marked as such,
\* the secure gateway answers 5xx with success = false and no data; neither
\* answers as if the live fetch had succeeded.
C15_FailurePolicy ==
    (/\ API_KEY # ""
     /\ resp.endpoint = "transactions"
     /\ resp.failed)
        => /\ gateway = "permissive"
                 => (resp.status = 200 /\ resp.synthetic
                     /\ resp.source = "demo_data")
           /\ gateway = "secure"
                 => (resp.status >= 500 /\ resp.status <= 599
                     /\ ~resp.success /\ ~resp.synthetic)
           /\ ~(resp.success /\ ~resp.synthetic)

\* With the context loaded, api_proxy.py listed the accounts, the payment
\* listing of an account raised, and the answer was demo data.
C15_Witness ==
    /\ gateway = "permissive"
    /\ bunq_ready
    /\ resp.endpoint = "transactions"
    /\ resp.failed
    /\ Len(resp.upstream) >= 2
    /\ resp.source = "demo_data"

\* C16: every response whose data comes from the demo generator carries a
\* source field, with a value other than the live one.
C16_SyntheticMarked ==
    resp.synthetic => resp.source \notin {"none", "bunq_api"}

\* ------------------------------------------------------ credential claims
\* A call of get_api_key_from_vaultwarden has been made.
Resolved ==
    /\ call_args # <<>>
    /\ call_args.fn = "get_api_key_from_vaultwarden"
    /\ call_result # <<>>

\* The vault's answer holds a login item of the configured name with a
\* non-empty password, and this is the credential returned.
FromLoginItem(a, value) ==
    \E i \in DOMAIN a.items :
        /\ a.items[i].name = item_name
        /\ a.items[i].type = LoginType
        /\ a.items[i].password # <<>>
        /\ a.items[i].password = value

\* A failure of the vault path: missing client id or secret, a failed token
\* or item-list step, no login item of the name, or the first one found has
\* an empty password.
VaultFailure(a) ==
    \/ a.client_id = ""
    \/ a.client_secret = ""
    \/ a.token # "ok"
    \/ a.items_step # "ok"
    \/ \A i \in DOMAIN a.items :
           ~(a.items[i].name = item_name /\ a.items[i].type = LoginType)
    \/ \E i \in DOMAIN a.items :
           /\ a.items[i].name = item_name
           /\ a.items[i].type = LoginType
           /\ a.items[i].password = <<>>
           /\ \A j \in 1..(i - 1) :
                  ~(a.items[j].name = item_name /\ a.items[j].type = LoginType)

\* C13 as stated: no exception leaves get_api_key_from_vaultwarden, and it
\* returns a non-empty credential only when a login item with the configured
\* name and a non-empty password was found in the vault.
C13_OnlyFromVaultItem ==
    Resolved =>
        /\ ~call_result.raised
        /\ call_result.value # <<>> =>
               /\ call_args.a.use_vaultwarden
               /\ FromLoginItem(call_args.a, call_result.value)

\* C13 amended: no exception leaves the function; with vault integration
\* enabled each failure yields an absent credential and a non-empty one is
\* the password of a login item of the configured name; with it disabled the
\* function returns the BUNQ_API_KEY value and sends no request.
C13_VaultOrEnvironment ==
    Resolved =>
        /\ ~call_result.raised
        /\ call_args.a.use_vaultwarden =>
               /\ VaultFailure(call_args.a) => call_result.value = <<>>
               /\ call_result.value # <<>> =>
                      FromLoginItem(call_args.a, call_result.value)
        /\ ~call_args.a.use_vaultwarden =>
               /\ call_result.value = call_args.a.env_key
               /\ call_result.network = <<>>

\* The vault path returned the password of the second item after passing
\* over a first item of the same name that is not a login item.
C13_Witness ==
    /\ Resolved
    /\ call_args.a.use_vaultwarden
    /\ Len(call_args.a.items) >= 2
    /\ call_args.a.items[1].name = item_name
    /\ call_args.a.items[1].type # LoginType
    /\ call_result.value = call_args.a.items[2].password
    /\ call_result.value # <<>>

\* C14: no log record holds the complete credential, whatever its length.
C14_NeverLoggedInFull ==
    (Resolved /\ call_result.value # <<>>) =>
        \A i \in DOMAIN call_result.log :
            call_result.log[i].shown # call_result.value

\* ----------------------------------------------------------- fetch claims
\* get_transactions has answered.
Fetched ==
    /\ call_args # <<>>
    /\ call_args.fn = "get_transactions"
    /\ call_result # <<>>

\* The position of account a in the account listing l (0 when not listed).
ListingIndex(l, a) ==
    IF \E k \in DOMAIN l : l[k] = a
    THEN CHOOSE k \in DOMAIN l : l[k] = a
    ELSE 0

\* Payment p, created at or after now - days, is returned by the fetch.
Due(p, a) == p.created >= FetchNow - a.days

\* The number of transactions of data made from the payment with this id.
Copies(data, id) == Cardinality({i \in DOMAIN data : data[i].id = id})

\* C18: without account_id the data are the concatenation, in the order of
\* the account listing, of each listed account's filtered transactions, each
\* tagged with the account's id and description; with account_id only that
\* account's payments are listed and the account listing is not called.
C18_ConcatenationInAccountOrder ==
    Fetched =>
        LET a == call_args.a
            data == call_result.data
            network == call_result.network
        IN  /\ a.account_id = 0 =>
                /\ \A i \in DOMAIN data :
                       /\ ListingIndex(a.accounts, data[i].account_id) > 0
                       /\ data[i].account_name = AccountName(data[i].account_id)
                       /\ data[i].id[1] = data[i].account_id
                /\ \A k \in DOMAIN a.accounts :
                       \A j \in DOMAIN a.payments[a.accounts[k]] :
                           LET p == a.payments[a.accounts[k]][j]
                           IN  Copies(data, p.id) = IF Due(p, a) THEN 1 ELSE 0
                /\ \A i, j \in DOMAIN data :
                       i < j =>
                           \/ ListingIndex(a.accounts, data[i].account_id)
                                  < ListingIndex(a.accounts, data[j].account_id)
                           \/ /\ data[i].account_id = data[j].account_id
                              /\ data[i].id[2] < data[j].id[2]
                /\ Len(network) = Len(a.accounts) + 1
                /\ network[1].op = "MonetaryAccountBank.list"
                /\ \A k \in DOMAIN a.accounts :
                       network[k + 1] = UpstreamCall("Payment.list", a.accounts[k])
            /\ a.account_id # 0 =>
                /\ network = <<UpstreamCall("Payment.list", a.account_id)>>
                /\ \A i \in DOMAIN data :
                       /\ data[i].id[1] = a.account_id
                       /\ data[i].account_id = 0
                /\ \A j \in DOMAIN a.payments[a.account_id] :
                       LET p == a.payments[a.account_id][j]
                       IN  Copies(data, p.id) = IF Due(p, a) THEN 1 ELSE 0

\* A fetch over two listed accounts, listed as 2 then 1, returned a
\* transaction of each.
C18_Witness ==
    /\ Fetched
    /\ call_args.a.account_id = 0
    /\ call_args.a.accounts = <<2, 1>>
    /\ Len(call_result.data) >= 2
    /\ call_result.data[1].account_id = 2
    /\ call_result.data[Len(call_result.data)].account_id = 1

\* C19: get_account_transactions returns, in upstream order, exactly the
\* payments not created strictly before cutoff = now - days: one created at
\* the cutoff is kept, each one before it is discarded, none at or after it
\* is dropped.
C19_FilterAtCutoff ==
    (Fetched /\ call_args.a.account_id # 0) =>
        LET a == call_args.a
            payments == a.payments[a.account_id]
            cutoff == FetchNow - a.days
            data == call_result.data
        IN  /\ \A k \in DOMAIN payments :
                   /\ payments[k].created < cutoff
                          => Copies(data, payments[k].id) = 0
                   /\ payments[k].created = cutoff
                          => Copies(data, payments[k].id) = 1
                   /\ payments[k].created > cutoff
                          => Copies(data, payments[k].id) = 1
            /\ \A i \in DOMAIN data :
                   /\ \E k \in DOMAIN payments : payments[k].id = data[i].id
                   /\ data[i].date >= cutoff
            /\ \A i, j \in DOMAIN data : i < j => data[i].id[2] < data[j].id[2]

\* An account with a payment before the cutoff and one exactly at the cutoff
\* was fetched: only the second came back.
C19_Witness ==
    /\ Fetched
    /\ call_args.a.account_id # 0
    /\ LET a == call_args.a
           payments == a.payments[a.account_id]
       IN  /\ Len(payments) >= 2
           /\ payments[1].created < FetchNow - a.days
           /\ payments[2].created = FetchNow - a.days
           /\ Len(call_result.data) = 1
           /\ call_result.data[1].id = payments[2].id

\* ------------------------------------------------------ categorizer claims
\* categorize_transaction has returned.
Categorized ==
    /\ call_args # <<>>
    /\ call_args.fn = "categorize_transaction"
    /\ call_result # <<>>

\* The text with every letter in upper case.
UpperChar(c) ==
    IF \E i \in DOMAIN LowerCase : LowerCase[i] = c
    THEN UpperCase[CHOOSE i \in DOMAIN LowerCase : LowerCase[i] = c]
    ELSE c
Upper(s) == [i \in DOMAIN s |-> UpperChar(s[i])]

\* The lower-cased description, a space, the lower-cased counterparty name.
SearchText == Lower(call_args.description) \o <<" ">> \o Lower(call_args.display_name)

\* The keywords of a rule group.
GroupWords(group) ==
    CASE group = "groceries" -> GroceriesWords
      [] group = "dining" -> DiningWords
      [] group = "transport" -> TransportWords
      [] group = "housing" -> HousingWords
      [] group = "utilities" -> UtilitiesWords
      [] group = "shopping" -> ShoppingWords
      [] group = "entertainment" -> EntertainmentWords
      [] group = "health" -> HealthWords
      [] group = "insurance" -> InsuranceWords
      [] group = "income" -> IncomeWords

\* The order groceries, dining, transport, housing/utilities, insurance,
\* income.
SixRules ==
    <<{"groceries"}, {"dining"}, {"transport"}, {"housing", "utilities"},
      {"insurance"}, {"income"}>>

\* The order of each file's own chain.
OwnRules(g) ==
    IF g = "secure"
    THEN <<{"groceries"}, {"dining"}, {"transport"}, {"housing"},
           {"utilities"}, {"shopping"}, {"entertainment"}, {"health"},
           {"income"}>>
    ELSE <<{"groceries"}, {"dining"}, {"transport"}, {"housing"},
           {"utilities"}, {"insurance"}, {"income"}>>

\* The category is the label the file gives to the first step of order that
\* has a keyword in the search text, the default when no step has one.
FirstOf(order) ==
    LET K == {k \in DOMAIN order :
                 \E group \in order[k] : AnyWord(GroupWords(group), SearchText)}
        rules == Rules(call_args.gateway)
    IN  IF K = {}
        THEN call_result.category = "Overig"
        ELSE \E k \in K :
                 /\ \A j \in K : k <= j
                 /\ \E i \in DOMAIN rules :
                        /\ rules[i].group \in order[k]
                        /\ AnyWord(GroupWords(rules[i].group), SearchText)
                        /\ call_result.category = rules[i].label

\* The category does not depend on the letter case of the two texts.
CaseIndependent ==
    /\ call_result.category =
           categorize_transaction(call_args.gateway, Upper(call_args.description),
                                  Upper(call_args.display_name))
    /\ call_result.category =
           categorize_transaction(call_args.gateway, Lower(call_args.description),
                                  Lower(call_args.display_name))

\* C20 as stated: the category is the label of the first rule, in the order
\* groceries, dining, transport, housing/utilities, insurance, income, with a
\* keyword in the lower-cased description + ' ' + counterparty name, the
\* default when none matches, whatever the letter case.
C20_FirstOfSixRules == Categorized => (FirstOf(SixRules) /\ CaseIndependent)

\* C20 amended: the same with each file's own chain: api_proxy.py groceries,
\* dining, transport, housing, utilities, insurance, income;
\* api_proxy_secure.py groceries, dining, transport, housing, utilities,
\* shopping, entertainment, health, income.
C20_FirstOfOwnRules ==
    Categorized => (FirstOf(OwnRules(call_args.gateway)) /\ CaseIndependent)

\* api_proxy_secure.py categorized a text holding an entertainment keyword
\* and an income keyword as Entertainment.
C20_Witness ==
    /\ Categorized
    /\ call_args.gateway = "secure"
    /\ AnyWord(EntertainmentWords, SearchText)
    /\ AnyWord(IncomeWords, SearchText)
    /\ call_result.category = "Entertainment"

\* A rule before the income rule in the file's chain has a keyword in the
\* search text.
EarlierRuleMatches ==
    \E k \in DOMAIN OwnRules(call_args.gateway) :
        \E group \in OwnRules(call_args.gateway)[k] :
            group # "income" /\ AnyWord(GroupWords(group), SearchText)

\* C21 as stated: a text holding a salary-like keyword is categorized as
\* Salaris, whatever other keywords it holds.
C21_IncomeAlwaysWins ==
    (Categorized /\ AnyWord(IncomeWords, SearchText))
        => call_result.category = "Salaris"

\* C21 amended: a text holding a salary-like keyword is categorized as
\* Salaris exactly when no earlier rule of the file's chain has a keyword in
\* it; otherwise the earlier rule's label is returned.
C21_IncomeWinsUnlessEarlierRule ==
    (Categorized /\ AnyWord(IncomeWords, SearchText))
        => (call_result.category = "Salaris" <=> ~EarlierRuleMatches)

\* A text with a groceries keyword and a salary-like keyword was categorized
\* as Boodschappen by api_proxy.py.
C21_Witness ==
    /\ Categorized
    /\ call_args.gateway = "permissive"
    /\ AnyWord(IncomeWords, SearchText)
    /\ AnyWord(GroceriesWords, SearchText)
    /\ call_result.category = "Boodschappen"

\* ------------------------------------------------------ statistics claims
\* get_statistics has computed its data.
Summarized ==
    /\ call_args # <<>>
    /\ call_args.fn = "get_statistics"
    /\ call_result # <<>>

\* The sum of v[i] over the indices i in S.
RECURSIVE SumOver(_, _)
SumOver(v, S) ==
    IF S = {} THEN 0
    ELSE LET i == CHOOSE i \in S : TRUE
         IN  v[i] + SumOver(v, S \ {i})

\* Two quotients are the same number.
SameRatio(r, num, den) == r.num * den = num * r.den

\* C22: income is the sum of the amounts > 0, expenses the absolute value of
\* the sum of the amounts < 0, net_savings their difference, savings_rate 0
\* when income is 0 and net_savings / income * 100 otherwise, categories the
\* per-category sum of absolute amounts of the transactions with amount < 0
\* only, avg_daily_expenses expenses / days when days > 0 and 0 otherwise.
C22_StatisticsFormulas ==
    Summarized =>
        LET l == call_args.a.all_transactions
            days == call_args.a.days
            r == call_result
            Pos == {i \in DOMAIN l : l[i].amount > 0}
            Neg == {i \in DOMAIN l : l[i].amount < 0}
            Amount == [i \in DOMAIN l |-> l[i].amount]
            Magnitude == [i \in DOMAIN l |-> 0 - l[i].amount]
        IN  /\ r.income = SumOver(Amount, Pos)
            /\ r.expenses = SumOver(Magnitude, Neg)
            /\ r.expenses >= 0
            /\ r.net_savings = r.income - r.expenses
            /\ r.income = 0 => SameRatio(r.savings_rate, 0, 1)
            /\ r.income # 0 =>
                   SameRatio(r.savings_rate, r.net_savings * 100, r.income)
            /\ DOMAIN r.categories = {l[i].category : i \in Neg}
            /\ \A cat \in DOMAIN r.categories :
                   r.categories[cat] =
                       SumOver(Magnitude, {i \in Neg : l[i].category = cat})
            /\ days > 0 => SameRatio(r.avg_daily_expenses, r.expenses, days)
            /\ days <= 0 => SameRatio(r.avg_daily_expenses, 0, 1)

\* Statistics over an income and two expenses of different categories, one
\* category also holding the income.
C22_Witness ==
    /\ Summarized
    /\ call_result.income > 0
    /\ call_result.expenses > call_result.income
    /\ Cardinality(DOMAIN call_result.categories) = 2
    /\ \E i \in DOMAIN call_args.a.all_transactions :
           /\ call_args.a.all_transactions[i].amount > 0
           /\ call_args.a.all_transactions[i].category \in DOMAIN call_result.categories

\* ---------------------------------------------------- demo generator claims
\* A demo generator has appended an entry.
Emitted ==
    /\ call_args # <<>>
    /\ call_args.fn = "demo"
    /\ call_result.last # <<>>

\* The entry appended last is dated within the last `days` days.
DatedInRange ==
    /\ call_result.last.date >= DemoToday - call_args.days
    /\ call_result.last.date <= DemoToday

\* The entry appended last is a salary entry.
LastIsIncome == call_result.last.amount > 0

\* C23 as stated: every entry a demo generator emits, expense or income, is
\* dated between now - days and now and has a category of the generator's
\* category table.
C23_DatesAndTableCategories ==
    Emitted =>
        /\ DatedInRange
        /\ call_result.last.category \in DemoCategories(call_args.gateway)

\* C23 amended: every entry is dated between now - days and now; every
\* expense entry has a category of the generator's category table, every
\* income entry the category Salaris, which is not in the table.
C23_DatesAndCategories ==
    Emitted =>
        /\ DatedInRange
        /\ ~LastIsIncome
               => call_result.last.category \in DemoCategories(call_args.gateway)
        /\ LastIsIncome
               => /\ call_result.last.category = "Salaris"
                  /\ "Salaris" \notin DemoCategories(call_args.gateway)

\* get_demo_data for 31 days appended its salary entry, dated today.
C23_Witness ==
    /\ Emitted
    /\ call_args.gateway = "secure"
    /\ call_args.days > SalaryPeriod
    /\ LastIsIncome
    /\ call_result.last.date = DemoToday
    /\ call_result.last.id = call_args.days * 3

\* C24: a demo generator emits floor(days / 30) income entries, each with the
\* fixed positive amount and the category Salaris; every other entry has a
\* strictly negative amount.
C24_OneIncomePerPeriod ==
    /\ (call_args # <<>> /\ call_args.fn = "demo" /\ call_result.returned)
           => call_result.incomes = call_args.days \div SalaryPeriod
    /\ Emitted =>
           /\ call_result.last.amount # 0
           /\ LastIsIncome
                  => /\ call_result.last.category = "Salaris"
                     /\ call_result.last.amount =
                            (IF call_args.gateway = "secure" THEN 2800 ELSE 3500)

\* ApiContext.create returned in this start: the device is registered with
\* the upstream API (save is called only on what create returned).
Registered(b) == b.create_called /\ b.save_called

\* C30: over any sequence of starts with a credential present, including
\* starts in which ApiContext.create or api_context.save fails, a device
\* registration that succeeded is never followed by another registration in
\* a later start: at most one successful registration ever occurs.
C30_RegistersOnce ==
    \A i, j \in DOMAIN boots :
        (i < j /\ boots[i].api_key /\ boots[j].api_key /\ Registered(boots[i]))
            => ~boots[j].create_called

\* ----------------------------------------------------------- health claims
\* The response is health_check's.
HealthAnswered == resp.endpoint = "health" /\ resp.handler_ran

\* C31: GET /api/health reports api_status 'initialized' only if init_bunq
\* returned True, and reports 'demo_mode' in every state where the live
\* upstream path is unavailable, also when a credential is present but the
\* bootstrap failed.
C31_HealthTellsBootstrap ==
    (Serving /\ HealthAnswered) =>
        /\ (resp.api_status = "initialized") => boots[1].result
        /\ (~boots[1].result) => (resp.api_status = "demo_mode")

\* ------------------------------------------------------------ retry claims
\* No upstream call of the request is made twice for the same account, and
\* only the last call made can be one that raised.
RequestTriesOnce ==
    /\ \A i, j \in DOMAIN resp.attempts :
          (i # j) => (resp.attempts[i].op # resp.attempts[j].op
                      \/ resp.attempts[i].account # resp.attempts[j].account)
    /\ \A k \in DOMAIN resp.attempts :
          resp.attempts[k].raises => (k = Len(resp.attempts))

\* The import sends each vault request at most once, and none after a step
\* that raised.
VaultTriesOnce ==
    (call_result # <<>>) =>
        LET sent == call_result.network
            a == call_args.a
        IN  /\ \A i, j \in DOMAIN sent : (i # j) => (sent[i] # sent[j])
            /\ (Len(sent) > 0 /\ a.token # "ok") =>
                   (sent = <<"POST /identity/connect/token">>)
            /\ (Len(sent) > 0 /\ a.token = "ok" /\ a.items_step # "ok") =>
                   (sent = <<"POST /identity/connect/token", "GET /api/ciphers">>)

\* init_bunq makes at most one of ApiContext.create and ApiContext.restore,
\* and neither when the import obtained no key.
BootTriesOnce ==
    \A k \in DOMAIN boots :
        /\ ~(boots[k].create_called /\ boots[k].restore_called)
        /\ (call_result # <<>> /\ call_result.is_none) =>
               (~boots[k].create_called /\ ~boots[k].restore_called)

\* C28: nothing is retried: in one startup and in one request each network
\* operation (vault token exchange, vault item fetch, device registration,
\* account listing, payment listing of one account) is attempted at most
\* once, and after the first attempt that failed no further vault or upstream
\* call is made in that startup step or request.
C28_NothingRetried ==
    RequestTriesOnce /\ VaultTriesOnce /\ BootTriesOnce

\* A process whose import asked the vault for the token and the items, whose
\* init_bunq registered the device, and which served a request in which the
\* payment listing raised after the account listing had succeeded.
C28_Witness ==
    /\ call_result # <<>>
    /\ Len(call_result.network) = 2
    /\ boots # <<>>
    /\ boots[1].create_called
    /\ Len(resp.attempts) >= 2
    /\ resp.attempts[Len(resp.attempts)].raises
    /\ resp.attempts[Len(resp.attempts)].op = "Payment.list"

\* ------------------------------------------------------- fallback claims
\* The response is that of api_proxy.py's transactions route.
PermissiveTransactions ==
    gateway = "permissive" /\ resp.endpoint = "transactions" /\ resp.handler_ran

PaymentListings == SelectSeq(resp.attempts, LAMBDA t : t.op = "Payment.list")

\* A payment listing raised after the payments of an earlier account had been
\* fetched.
FailedAfterFetch ==
    \E j, k \in DOMAIN PaymentListings :
        j < k /\ ~PaymentListings[j].raises /\ PaymentListings[k].raises

OnlyFrom(origin) == \A k \in DOMAIN resp.data : resp.data[k].origin = origin

\* C29: a transactions response of the permissive gateway never mixes live
\* and synthetic data: when a payment listing fails after earlier accounts
\* were fetched, the response holds demo transactions only and is marked
\* 'demo_data'; a response marked 'bunq_api' holds upstream transactions only
\* and is produced only when the account listing and every payment listing
\* of its accounts succeeded.
C29_NeverMixed ==
    PermissiveTransactions =>
        /\ OnlyFrom("generator") \/ OnlyFrom("bunq")
        /\ FailedAfterFetch =>
               (resp.source = "demo_data" /\ OnlyFrom("generator")
                /\ resp.data # <<>>)
        /\ (resp.source = "bunq_api") =>
               /\ OnlyFrom("bunq")
               /\ ~resp.failed
               /\ \A k \in DOMAIN resp.attempts : ~resp.attempts[k].raises
               /\ (resp.attempts[1].op = "MonetaryAccountBank.list") =>
                      /\ Len(PaymentListings) = resp.listed
                      /\ Len(resp.data) = resp.listed

\* The payments of the first account were fetched, the listing of the second
\* raised, and the fallback answered.
C29_Witness ==
    PermissiveTransactions /\ FailedAfterFetch /\ resp.source = "demo_data"

\* ---------------------------------------------------------- bootstrap claims

\* C10: a start with a credential that finds the persisted context file
\* restores it, and neither calls ApiContext.create nor writes the file; and
\* the start after one whose init_bunq returned True never calls
\* ApiContext.create.
C10_RestoreNeverRegisters ==
    /\ \A i \in DOMAIN boots :
         (boots[i].api_key /\ boots[i].file_before)
            => /\ boots[i].restore_called
               /\ ~boots[i].create_called
               /\ ~boots[i].save_called
               /\ boots[i].file_after = boots[i].file_before
    /\ \A i \in DOMAIN boots :
         (i > 1 /\ boots[i - 1].result) => ~boots[i].create_called

\* A first start registered and saved the context and returned True; the
\* next start, with a credential, restored it.
C10_Witness ==
    /\ Len(boots) >= 2
    /\ boots[1].create_called
    /\ boots[1].save_called
    /\ boots[1].result
    /\ boots[2].api_key
    /\ boots[2].restore_called
\* The upstream operations that only read.
ReadOperations == {"MonetaryAccountBank.list", "Payment.list"}

\* C17: at startup and in every request the gateway calls no create, update
\* or delete operation of the upstream API, only MonetaryAccountBank.list and
\* Payment.list.
C17_ReadOnlyUpstream ==
    /\ \A i \in DOMAIN boots : ~boots[i].create_called
    /\ \A k \in DOMAIN resp.upstream : resp.upstream[k] \in ReadOperations
====
